---- MODULE Spec2Model ----
(***************************************************************************)
(* Model of the algorithm collection: count_inversions (merge sort),       *)
(* the exact 0/1 knapsack (bottom-up and memoized), the value-indexed      *)
(* knapsack with its value-scaling heuristic, and longest common           *)
(* subsequence.  Every function is a sequential computation over lists;    *)
(* a behaviour is one call: Init binds the arguments, the actions are the  *)
(* steps of the called function.                                           *)
(*                                                                         *)
(* Python lists are sequences here (index k of the code is k + 1), and a   *)
(* list index is modelled with the interpreter's rules: a negative index   *)
(* counts from the end, an index outside -len .. len-1 raises IndexError.  *)
(***************************************************************************)
EXTENDS Integers, Sequences, FiniteSets, TLC

VARIABLES call, pc, heap, stack, ret, kvals, subproblems, result

vars == <<call, pc, heap, stack, ret, kvals, subproblems, result>>

(***************************************************************************)
(* Bounds of the explored inputs.                                          *)
(***************************************************************************)
MaxLen == 4          \* longest list given to count_inversions
MaxElem == 3         \* list elements are 1 .. MaxElem
MaxItems == 2        \* most knapsack items of an enumerated well-formed instance
MaxVal == 2          \* item values are 0 .. MaxVal
MaxWeight == 2       \* item weights are 0 .. MaxWeight
MaxCap == 2          \* capacities are -1 .. MaxCap
MaxBadLen == 2       \* longest list of the calls with absent, empty or unequal lists
MaxStr == 3          \* longest string given to longest_common_subsequence

(***************************************************************************)
(* Values shared by all functions.                                         *)
(***************************************************************************)
None == [isNone |-> TRUE, items |-> <<>>]
Some(s) == [isNone |-> FALSE, items |-> s]

RECURSIVE SeqsUpTo(_, _)
SeqsUpTo(S, n) ==
    IF n = 0 THEN {<<>>}
    ELSE LET shorter == SeqsUpTo(S, n - 1)
         IN  shorter \cup {Append(s, e) : s \in {t \in shorter : Len(t) = n - 1}, e \in S}

SeqsOfLen(S, n) == {s \in SeqsUpTo(S, n) : Len(s) = n}

NoEps == [p |-> 0, q |-> 1]

Call(fn, nums, vals, weights, cap, eps, x, y) ==
    [fn |-> fn, nums |-> nums, vals |-> vals, weights |-> weights,
     cap |-> cap, eps |-> eps, x |-> x, y |-> y]

NoResult == [status |-> "none", num |-> 0, set |-> {}, seq |-> <<>>]
Raise(e) == [status |-> e, num |-> 0, set |-> {}, seq |-> <<>>]
ReturnNum(k) == [status |-> "ok", num |-> k, set |-> {}, seq |-> <<>>]
ReturnSet(s) == [status |-> "ok", num |-> 0, set |-> s, seq |-> <<>>]
ReturnSeq(s) == [status |-> "ok", num |-> 0, set |-> {}, seq |-> s]

NoTable == <<>>
NoHeap == [arg |-> <<>>, copy |-> <<>>, aux |-> <<>>]

\* list[k] of the code: defined iff -len(list) <= k < len(list)
PyIndexOk(list, k) == -Len(list) <= k /\ k < Len(list)
PyGet(list, k) == IF k >= 0 THEN list[k + 1] ELSE list[Len(list) + k + 1]

RECURSIVE SumSeq(_)
SumSeq(s) == IF s = <<>> THEN 0 ELSE s[1] + SumSeq(Tail(s))

RECURSIVE MaxSeq(_)
MaxSeq(s) == IF Len(s) = 1 THEN s[1]
             ELSE LET m == MaxSeq(Tail(s)) IN IF s[1] >= m THEN s[1] ELSE m

Max(a, b) == IF a >= b THEN a ELSE b
Min(a, b) == IF a <= b THEN a ELSE b

(***************************************************************************)
(* count_inversions                                                        *)
(***************************************************************************)
ExampleNums == <<2, 3, 8, 6, 1>>

InversionInputs ==
    {None} \cup {Some(s) : s \in SeqsUpTo(1..MaxElem, MaxLen) \cup {ExampleNums}}

\* The object `nums_copy` names after `nums.copy()`: a fresh list, not the
\* caller's.  The heap has three lists: the caller's ("arg"), the copy and aux.
NumsAliasRef == "arg"
NumsCopyRef == "copy"

Frame(left, right) == [left |-> left, right |-> right, phase |-> "enter", leftCount |-> 0]

Mid(left, right) == left + (right - left) \div 2

RECURSIVE MergeLoop(_, _, _, _, _, _, _, _)
MergeLoop(nums, aux, mid, right, left_ptr, right_ptr, merged_ptr, inversion_count) ==
    IF left_ptr <= mid /\ right_ptr <= right
    THEN IF nums[left_ptr + 1] <= nums[right_ptr + 1]
         THEN MergeLoop(nums, [aux EXCEPT ![merged_ptr + 1] = nums[left_ptr + 1]],
                        mid, right, left_ptr + 1, right_ptr, merged_ptr + 1,
                        inversion_count)
         ELSE MergeLoop(nums, [aux EXCEPT ![merged_ptr + 1] = nums[right_ptr + 1]],
                        mid, right, left_ptr, right_ptr + 1, merged_ptr + 1,
                        inversion_count + 1)
    ELSE IF left_ptr <= mid
    THEN MergeLoop(nums, [aux EXCEPT ![merged_ptr + 1] = nums[left_ptr + 1]],
                   mid, right, left_ptr + 1, right_ptr, merged_ptr + 1,
                   inversion_count)
    ELSE IF right_ptr <= right
    THEN MergeLoop(nums, [aux EXCEPT ![merged_ptr + 1] = nums[right_ptr + 1]],
                   mid, right, left_ptr, right_ptr + 1, merged_ptr + 1,
                   inversion_count)
    ELSE [aux |-> aux, count |-> inversion_count]

\* _merge: the merged range is written to aux, then copied back into nums
Merge(nums, left, mid, right, aux) ==
    LET r == MergeLoop(nums, aux, mid, right, left, mid + 1, left, 0)
    IN  [nums |-> [i \in 1..Len(nums) |->
                      IF left + 1 <= i /\ i <= right + 1 THEN r.aux[i] ELSE nums[i]],
         aux |-> r.aux,
         count |-> r.count]

\* count_inversions up to the first call of _merge_sort_helper
CountInversions ==
    /\ pc = "call"
    /\ call.fn = "count_inversions"
    /\ IF call.nums.isNone \/ Len(call.nums.items) = 0
       THEN /\ result' = ReturnNum(0)
            /\ pc' = "done"
            /\ UNCHANGED <<heap, stack>>
       ELSE /\ heap' = [[heap EXCEPT ![NumsCopyRef] = heap.arg]
                           EXCEPT !.aux = [i \in 1..Len(heap.arg) |-> 0]]
            /\ stack' = <<Frame(0, Len(heap.arg) - 1)>>
            /\ pc' = "sort"
            /\ UNCHANGED result
    /\ UNCHANGED <<call, ret, kvals, subproblems>>

Top == stack[Len(stack)]
Pop == SubSeq(stack, 1, Len(stack) - 1)

\* _merge_sort_helper, base case
MergeSortBase ==
    /\ pc = "sort" /\ stack # <<>>
    /\ Top.phase = "enter" /\ Top.left = Top.right
    /\ stack' = Pop
    /\ ret' = 0
    /\ UNCHANGED <<call, pc, heap, kvals, subproblems, result>>

\* _merge_sort_helper, the recursive call on the left half
MergeSortLeft ==
    /\ pc = "sort" /\ stack # <<>>
    /\ Top.phase = "enter" /\ Top.left # Top.right
    /\ stack' = Append([stack EXCEPT ![Len(stack)].phase = "left"],
                       Frame(Top.left, Mid(Top.left, Top.right)))
    /\ UNCHANGED <<call, pc, heap, ret, kvals, subproblems, result>>

\* _merge_sort_helper, the recursive call on the right half
MergeSortRight ==
    /\ pc = "sort" /\ stack # <<>>
    /\ Top.phase = "left"
    /\ stack' = Append([stack EXCEPT ![Len(stack)].phase = "right",
                                     ![Len(stack)].leftCount = ret],
                       Frame(Mid(Top.left, Top.right) + 1, Top.right))
    /\ UNCHANGED <<call, pc, heap, ret, kvals, subproblems, result>>

\* _merge_sort_helper, the merge of the two sorted halves and the return
MergeSortMerge ==
    /\ pc = "sort" /\ stack # <<>>
    /\ Top.phase = "right"
    /\ LET m == Merge(heap[NumsCopyRef], Top.left, Mid(Top.left, Top.right),
                      Top.right, heap.aux)
       IN  /\ heap' = [[heap EXCEPT ![NumsCopyRef] = m.nums] EXCEPT !.aux = m.aux]
           /\ ret' = Top.leftCount + ret + m.count
    /\ stack' = Pop
    /\ UNCHANGED <<call, pc, kvals, subproblems, result>>

\* count_inversions returns what the outermost helper call returned
CountInversionsReturn ==
    /\ pc = "sort" /\ stack = <<>>
    /\ result' = ReturnNum(ret)
    /\ pc' = "done"
    /\ UNCHANGED <<call, heap, stack, ret, kvals, subproblems>>

InitInv ==
    /\ \E nums \in InversionInputs :
          /\ call = Call("count_inversions", nums, None, None, 0, NoEps, None, None)
          /\ heap = [NoHeap EXCEPT !.arg = nums.items]
    /\ pc = "call"
    /\ stack = <<>>
    /\ ret = 0
    /\ kvals = None
    /\ subproblems = NoTable
    /\ result = NoResult

NextInv ==
    \/ CountInversions
    \/ MergeSortBase
    \/ MergeSortLeft
    \/ MergeSortRight
    \/ MergeSortMerge
    \/ CountInversionsReturn

SpecInv == InitInv /\ [][NextInv]_vars

(***************************************************************************)
(* Exact knapsack: knapsack (bottom-up) and knapsack_straightforward       *)
(* (memoized), with the reconstruction they share.                         *)
(***************************************************************************)
Ok(t) == [t |-> t, err |-> ""]
Err(t, e) == [t |-> t, err |-> e]

\* The argument checks, in the order the `or` chain evaluates them:
\* vals is None, len(weights) (TypeError on None), len(weights) == 0, cap < 0.
ValidateArgs(vals, weights, cap) ==
    IF vals.isNone THEN "IllegalArgumentError"
    ELSE IF weights.isNone THEN "TypeError"
    ELSE IF Len(weights.items) = 0 THEN "IllegalArgumentError"
    ELSE IF cap < 0 THEN "IllegalArgumentError"
    ELSE ""

AllocTable(n, width, v) == [i \in 1..n |-> [x \in 1..width |-> v]]

\* Row of item 0: subproblems[0][x] = vals[0] for every x with weights[0] <= x.
\* With no item at all, the first such x raises IndexError.
BottomUpFirstRow(vals, weights, cap, T) ==
    IF PyGet(weights, 0) <= cap
    THEN IF Len(vals) = 0 THEN Err(T, "IndexError")
         ELSE Ok([T EXCEPT ![1] = [x \in 1..(cap + 1) |->
                      IF PyGet(weights, 0) <= x - 1 THEN PyGet(vals, 0) ELSE T[1][x]]])
    ELSE Ok(T)

BottomUpRow(val, weight, cap, prev) ==
    [x \in 1..(cap + 1) |->
        IF weight > x - 1 THEN prev[x]
        ELSE Max(prev[x], prev[x - weight] + val)]

RECURSIVE BottomUpRows(_, _, _, _, _)
BottomUpRows(vals, weights, cap, T, item) ==
    IF item >= Len(vals) THEN Ok(T)
    ELSE IF ~PyIndexOk(weights, item) THEN Err(T, "IndexError")
    ELSE BottomUpRows(vals, weights, cap,
                      [T EXCEPT ![item + 1] =
                          BottomUpRow(PyGet(vals, item), PyGet(weights, item), cap, T[item])],
                      item + 1)

\* knapsack, from the allocation of the table to the filled table
BottomUpTable(vals, weights, cap) ==
    LET first == BottomUpFirstRow(vals, weights, cap, AllocTable(Len(vals), cap + 1, 0))
    IN  IF first.err # "" THEN first
        ELSE BottomUpRows(vals, weights, cap, first.t, 1)

\* _knapsack_helper: fills subproblems[last_item][curr_cap] and what it needs
RECURSIVE KnapsackHelper(_, _, _, _, _)
KnapsackHelper(vals, weights, last_item, curr_cap, T) ==
    IF ~PyIndexOk(T, last_item) THEN Err(T, "IndexError")
    ELSE IF PyGet(PyGet(T, last_item), curr_cap) # -1 THEN Ok(T)
    ELSE IF last_item = 0
    THEN Ok([T EXCEPT ![1][curr_cap + 1] =
                IF PyGet(weights, 0) > curr_cap THEN 0 ELSE PyGet(vals, 0)])
    ELSE IF ~PyIndexOk(weights, last_item) THEN Err(T, "IndexError")
    ELSE IF PyGet(weights, last_item) > curr_cap
    THEN LET r == KnapsackHelper(vals, weights, last_item - 1, curr_cap, T)
         IN  IF r.err # "" THEN r
             ELSE Ok([r.t EXCEPT ![last_item + 1][curr_cap + 1] =
                         r.t[last_item][curr_cap + 1]])
    ELSE LET r1 == KnapsackHelper(vals, weights, last_item - 1, curr_cap, T)
         IN  IF r1.err # "" THEN r1
             ELSE LET r2 == KnapsackHelper(vals, weights, last_item - 1,
                                           curr_cap - PyGet(weights, last_item), r1.t)
                  IN  IF r2.err # "" THEN r2
                      ELSE Ok([r2.t EXCEPT ![last_item + 1][curr_cap + 1] =
                                  Max(r1.t[last_item][curr_cap + 1],
                                      r2.t[last_item][curr_cap - PyGet(weights, last_item) + 1]
                                        + PyGet(vals, last_item))])

\* knapsack_straightforward, from the allocation of the table to the end of
\* the outermost _knapsack_helper call
MemoTable(vals, weights, cap) ==
    KnapsackHelper(vals, weights, Len(vals) - 1, cap, AllocTable(Len(vals), cap + 1, -1))

\* The index of the "with" read in _reconstruct: the read happens before the
\* test weights[curr_item] <= curr_cap.
WithIndexEager(curr_cap, weight) == curr_cap - weight

RECURSIVE ReconstructLoop(_, _, _, _, _, _)
ReconstructLoop(vals, weights, T, curr_item, curr_cap, included) ==
    IF curr_item >= 1
    THEN IF ~PyIndexOk(weights, curr_item) THEN Raise("IndexError")
         ELSE LET row == T[curr_item]
                  k == WithIndexEager(curr_cap, PyGet(weights, curr_item))
              IN  IF ~PyIndexOk(row, k) THEN Raise("IndexError")
                  ELSE LET result_without_curr == PyGet(row, curr_cap)
                           result_with_curr == PyGet(row, k) + PyGet(vals, curr_item)
                       IN  IF PyGet(weights, curr_item) <= curr_cap
                              /\ result_without_curr < result_with_curr
                           THEN ReconstructLoop(vals, weights, T, curr_item - 1,
                                                curr_cap - PyGet(weights, curr_item),
                                                included \cup {curr_item})
                           ELSE ReconstructLoop(vals, weights, T, curr_item - 1,
                                                curr_cap, included)
    ELSE IF PyGet(weights, 0) <= curr_cap
    THEN ReturnSet(included \cup {0})
    ELSE ReturnSet(included)

\* _reconstruct of the exact knapsack
Reconstruct(vals, weights, cap, T) ==
    ReconstructLoop(vals, weights, T, Len(vals) - 1, cap, {})

\* knapsack(vals, weights, cap) as a whole
Knapsack(vals, weights, cap) ==
    IF ValidateArgs(vals, weights, cap) # "" THEN Raise(ValidateArgs(vals, weights, cap))
    ELSE LET f == BottomUpTable(vals.items, weights.items, cap)
         IN  IF f.err # "" THEN Raise(f.err)
             ELSE Reconstruct(vals.items, weights.items, cap, f.t)

(***************************************************************************)
(* Value-indexed knapsack (named knapsack in its own file, ValKnapsack     *)
(* here) and knapsack_with_dynamic_programming_heuristic.                  *)
(***************************************************************************)
INFINITY == 1000000

\* Row of item 0: weights[0] where vals[0] >= x, INFINITY elsewhere
ValueFirstRowFlipped(vals, weights, val_sum, T) ==
    IF Len(vals) = 0 THEN Err(T, "IndexError")
    ELSE Ok([T EXCEPT ![1] = [x \in 1..(val_sum + 1) |->
                IF PyGet(vals, 0) <= x - 1 THEN PyGet(weights, 0) ELSE INFINITY]])

ValueFirstRow(vals, weights, val_sum, T) ==
    IF Len(vals) = 0 THEN Err(T, "IndexError")
    ELSE Ok([T EXCEPT ![1] = [x \in 1..(val_sum + 1) |->
                IF PyGet(vals, 0) >= x - 1 THEN PyGet(weights, 0) ELSE INFINITY]])

ValueRow(val, weight, val_sum, prev) ==
    [x \in 1..(val_sum + 1) |->
        Min(prev[x], weight + (IF val < x - 1 THEN prev[x - val] ELSE 0))]

RECURSIVE ValueRows(_, _, _, _, _)
ValueRows(vals, weights, val_sum, T, item) ==
    IF item >= Len(vals) THEN Ok(T)
    ELSE IF ~PyIndexOk(weights, item) THEN Err(T, "IndexError")
    ELSE ValueRows(vals, weights, val_sum,
                   [T EXCEPT ![item + 1] =
                       ValueRow(PyGet(vals, item), PyGet(weights, item), val_sum, T[item])],
                   item + 1)

\* the value-indexed knapsack, from the allocation of the table to the filled table
ValueTable(vals, weights) ==
    LET first == ValueFirstRow(vals, weights, SumSeq(vals),
                               AllocTable(Len(vals), SumSeq(vals) + 1, 0))
    IN  IF first.err # "" THEN first
        ELSE ValueRows(vals, weights, SumSeq(vals), first.t, 1)

\* The downward scan of _reconstruct: the largest x some row reaches within
\* cap, and the first such row; (0, -1) when there is none.
FeasibleTargets(vals, cap, T) ==
    {x \in 0..SumSeq(vals) : \E item \in 0..(Len(vals) - 1) : T[item + 1][x + 1] <= cap}

MaxOf(S) == CHOOSE x \in S : \A y \in S : y <= x
MinOf(S) == CHOOSE x \in S : \A y \in S : x <= y

ScanTarget(vals, cap, T) ==
    IF FeasibleTargets(vals, cap, T) = {}
    THEN [max_total_val |-> 0, last_item |-> -1]
    ELSE LET x == MaxOf(FeasibleTargets(vals, cap, T))
         IN  [max_total_val |-> x,
              last_item |-> MinOf({item \in 0..(Len(vals) - 1) : T[item + 1][x + 1] <= cap})]

RECURSIVE ValReconstructLoop(_, _, _, _, _, _, _)
ValReconstructLoop(vals, weights, T, curr_item, curr_target_val, curr_cap, included) ==
    IF curr_item >= 1
    THEN LET row == T[curr_item]
         IN  IF ~PyIndexOk(row, curr_target_val) THEN Raise("IndexError")
             ELSE LET result_without_curr == PyGet(row, curr_target_val)
                      result_with_curr ==
                          PyGet(weights, curr_item)
                            + (IF PyGet(vals, curr_item) < curr_target_val
                               THEN PyGet(row, curr_target_val - PyGet(vals, curr_item))
                               ELSE 0)
                  IN  IF result_without_curr > result_with_curr
                         /\ PyGet(weights, curr_item) <= curr_cap
                      THEN ValReconstructLoop(vals, weights, T, curr_item - 1,
                                              curr_target_val - PyGet(vals, curr_item),
                                              curr_cap - PyGet(weights, curr_item),
                                              included \cup {curr_item})
                      ELSE ValReconstructLoop(vals, weights, T, curr_item - 1,
                                              curr_target_val, curr_cap, included)
    ELSE IF PyGet(vals, 0) >= curr_target_val /\ PyGet(weights, 0) <= curr_cap
    THEN ReturnSet(included \cup {0})
    ELSE ReturnSet(included)

\* _reconstruct of the value-indexed knapsack
ValReconstruct(vals, weights, cap, T) ==
    LET s == ScanTarget(vals, cap, T)
    IN  ValReconstructLoop(vals, weights, T, s.last_item, s.max_total_val, cap, {})

\* epsilon is the rational p / q, q > 0
EpsilonInRange(eps) == ~(eps.p <= 0 \/ eps.p >= eps.q)

\* The checks of the heuristic: those of knapsack, then epsilon in (0, 1)
HeuristicValidateArgs(vals, weights, cap, eps) ==
    IF ValidateArgs(vals, weights, cap) # "" THEN ValidateArgs(vals, weights, cap)
    ELSE IF ~EpsilonInRange(eps) THEN "IllegalArgumentError"
    ELSE ""

\* m = epsilon * max_val / n and int(val / m) = floor(val * q * n / (p * max_val)):
\* max() of no value raises ValueError, m = 0 raises ZeroDivisionError.
TransformVals(vals, eps) ==
    IF Len(vals) = 0 THEN Err(<<>>, "ValueError")
    ELSE IF MaxSeq(vals) = 0 THEN Err(<<>>, "ZeroDivisionError")
    ELSE Ok([i \in 1..Len(vals) |->
                (vals[i] * eps.q * Len(vals)) \div (eps.p * MaxSeq(vals))])

(***************************************************************************)
(* The knapsack calls as steps: argument checks, table, reconstruction.    *)
(***************************************************************************)
ExactFns == {"knapsack", "knapsack_straightforward"}
ValueFns == {"val_knapsack", "heuristic"}

Instance(vals, weights, cap) == [vals |-> vals, weights |-> weights, cap |-> cap]

ExampleInstance == Instance(Some(<<60, 100, 120>>), Some(<<10, 20, 30>>), 50)

\* an instance whose most valuable item does not fit the knapsack
HeavyInstance == Instance(Some(<<0, 1, 13>>), Some(<<0, 0, 1>>), 0)

\* equal-length, non-empty lists and a capacity >= 0
WellFormedInstances ==
    UNION {{Instance(Some(v), Some(w), c) :
                v \in SeqsOfLen(0..MaxVal, n),
                w \in SeqsOfLen(0..MaxWeight, n),
                c \in 0..MaxCap} : n \in 1..MaxItems}

\* absent, empty or unequal lists, negative capacity (and well-formed short
\* ones); the elements are 0 or 1, what matters here is the shape
ShortLists == {None} \cup {Some(l) : l \in SeqsUpTo(0..1, MaxBadLen)}

ShortInstances ==
    {Instance(v, w, c) : v \in ShortLists, w \in ShortLists, c \in -1..MaxCap}

ExactInstances ==
    WellFormedInstances \cup ShortInstances
        \cup {ExampleInstance}

ValueInstances ==
    WellFormedInstances \cup ShortInstances
        \cup {[i EXCEPT !.cap = INFINITY] : i \in {j \in WellFormedInstances : j.cap = 0}}

HeuristicInstances ==
    WellFormedInstances \cup ShortInstances
        \cup {HeavyInstance}

\* epsilon = p / q: 0, 1/4, 1/2, 3/4, 1 and 5/4
Epsilons == {[p |-> 0, q |-> 1], [p |-> 1, q |-> 4], [p |-> 1, q |-> 2],
             [p |-> 3, q |-> 4], [p |-> 1, q |-> 1], [p |-> 5, q |-> 4]}

\* the argument checks of knapsack, knapsack_straightforward and the
\* value-indexed knapsack (the latter also when the heuristic calls it)
Validate ==
    /\ pc = "validate"
    /\ IF ValidateArgs(kvals, call.weights, call.cap) # ""
       THEN /\ result' = Raise(ValidateArgs(kvals, call.weights, call.cap))
            /\ pc' = "done"
       ELSE /\ pc' = "fill"
            /\ UNCHANGED result
    /\ UNCHANGED <<call, heap, stack, ret, kvals, subproblems>>

\* the argument checks of the heuristic
HeuristicValidate ==
    /\ pc = "h_validate"
    /\ IF HeuristicValidateArgs(call.vals, call.weights, call.cap, call.eps) # ""
       THEN /\ result' = Raise(HeuristicValidateArgs(call.vals, call.weights,
                                                     call.cap, call.eps))
            /\ pc' = "done"
       ELSE /\ pc' = "h_transform"
            /\ UNCHANGED result
    /\ UNCHANGED <<call, heap, stack, ret, kvals, subproblems>>

\* the scaling of the values, then the call of the value-indexed knapsack
HeuristicTransform ==
    /\ pc = "h_transform"
    /\ LET tr == TransformVals(call.vals.items, call.eps)
       IN  IF tr.err # ""
           THEN /\ result' = Raise(tr.err)
                /\ pc' = "done"
                /\ UNCHANGED kvals
           ELSE /\ kvals' = Some(tr.t)
                /\ pc' = "validate"
                /\ UNCHANGED result
    /\ UNCHANGED <<call, heap, stack, ret, subproblems>>

FillStep(f) ==
    /\ subproblems' = f.t
    /\ IF f.err # ""
       THEN /\ result' = Raise(f.err)
            /\ pc' = "done"
       ELSE /\ pc' = "reconstruct"
            /\ UNCHANGED result
    /\ UNCHANGED <<call, heap, stack, ret, kvals>>

\* knapsack: the bottom-up table
FillBottomUp ==
    /\ pc = "fill" /\ call.fn = "knapsack"
    /\ FillStep(BottomUpTable(kvals.items, call.weights.items, call.cap))

\* knapsack_straightforward: the memoized table
FillMemo ==
    /\ pc = "fill" /\ call.fn = "knapsack_straightforward"
    /\ FillStep(MemoTable(kvals.items, call.weights.items, call.cap))

\* the value-indexed knapsack: the bottom-up table
FillValue ==
    /\ pc = "fill" /\ call.fn \in ValueFns
    /\ FillStep(ValueTable(kvals.items, call.weights.items))

ReconstructExact ==
    /\ pc = "reconstruct" /\ call.fn \in ExactFns
    /\ result' = Reconstruct(kvals.items, call.weights.items, call.cap, subproblems)
    /\ pc' = "done"
    /\ UNCHANGED <<call, heap, stack, ret, kvals, subproblems>>

ReconstructValue ==
    /\ pc = "reconstruct" /\ call.fn \in ValueFns
    /\ result' = ValReconstruct(kvals.items, call.weights.items, call.cap, subproblems)
    /\ pc' = "done"
    /\ UNCHANGED <<call, heap, stack, ret, kvals, subproblems>>

InitKnapCall ==
    \/ \E fn \in ExactFns, i \in ExactInstances :
          /\ call = Call(fn, None, i.vals, i.weights, i.cap, NoEps, None, None)
          /\ kvals = i.vals
          /\ pc = "validate"
    \/ \E i \in ValueInstances :
          /\ call = Call("val_knapsack", None, i.vals, i.weights, i.cap, NoEps, None, None)
          /\ kvals = i.vals
          /\ pc = "validate"
    \/ \E i \in HeuristicInstances, eps \in Epsilons :
          /\ call = Call("heuristic", None, i.vals, i.weights, i.cap, eps, None, None)
          /\ kvals = None
          /\ pc = "h_validate"

InitKnap ==
    /\ InitKnapCall
    /\ heap = NoHeap
    /\ stack = <<>>
    /\ ret = 0
    /\ subproblems = NoTable
    /\ result = NoResult

NextKnap ==
    \/ Validate
    \/ HeuristicValidate
    \/ HeuristicTransform
    \/ FillBottomUp
    \/ FillMemo
    \/ FillValue
    \/ ReconstructExact
    \/ ReconstructValue

SpecKnap == InitKnap /\ [][NextKnap]_vars

(***************************************************************************)
(* longest_common_subsequence                                              *)
(***************************************************************************)
Chars == {"a", "b"}

Strings == {None} \cup {Some(s) : s \in SeqsUpTo(Chars, MaxStr)}

\* [[0 * (n + 1)] for _ in range(m + 1)]: m + 1 rows, each the one-element
\* list holding the product 0 * (n + 1)
LcsAlloc(m, n) == [i \in 1..(m + 1) |-> <<0 * (n + 1)>>]

\* the body of the two loops at (i, j): the reads, then the store
LcsCell(x, y, T, i, j) ==
    IF PyGet(x, i - 1) = PyGet(y, j - 1)
    THEN IF ~PyIndexOk(PyGet(T, i - 1), j - 1) \/ ~PyIndexOk(PyGet(T, i), j)
         THEN Err(T, "IndexError")
         ELSE Ok([T EXCEPT ![i + 1][j + 1] = PyGet(PyGet(T, i - 1), j - 1) + 1])
    ELSE IF ~PyIndexOk(PyGet(T, i - 1), j) \/ ~PyIndexOk(PyGet(T, i), j - 1)
              \/ ~PyIndexOk(PyGet(T, i), j)
         THEN Err(T, "IndexError")
         ELSE Ok([T EXCEPT ![i + 1][j + 1] =
                     Max(PyGet(PyGet(T, i - 1), j), PyGet(PyGet(T, i), j - 1))])

RECURSIVE LcsFill(_, _, _, _, _)
LcsFill(x, y, T, i, j) ==
    IF i > Len(x) THEN Ok(T)
    ELSE IF j > Len(y) THEN LcsFill(x, y, T, i + 1, 1)
    ELSE LET c == LcsCell(x, y, T, i, j)
         IN  IF c.err # "" THEN c ELSE LcsFill(x, y, c.t, i, j + 1)

\* _reconstruct_longest_common_subsequence
RECURSIVE LcsReconstruct(_, _, _, _, _, _)
LcsReconstruct(x, y, dp, i, j, lcs) ==
    IF i >= 1 /\ j >= 1
    THEN IF PyGet(x, i - 1) = PyGet(y, j - 1)
         THEN LcsReconstruct(x, y, dp, i - 1, j - 1, <<PyGet(x, i - 1)>> \o lcs)
         ELSE IF ~PyIndexOk(PyGet(dp, i), j) \/ ~PyIndexOk(PyGet(dp, i - 1), j)
              THEN Raise("IndexError")
              ELSE IF PyGet(PyGet(dp, i), j) = PyGet(PyGet(dp, i - 1), j)
                   THEN LcsReconstruct(x, y, dp, i - 1, j, lcs)
                   ELSE LcsReconstruct(x, y, dp, i, j - 1, lcs)
    ELSE ReturnSeq(lcs)

\* longest_common_subsequence(x, y) as a whole; `not x` holds of None and ""
LongestCommonSubsequenceOf(x, y) ==
    IF x.isNone \/ Len(x.items) = 0 \/ y.isNone \/ Len(y.items) = 0
    THEN ReturnSeq(<<>>)
    ELSE LET f == LcsFill(x.items, y.items, LcsAlloc(Len(x.items), Len(y.items)), 1, 1)
         IN  IF f.err # "" THEN Raise(f.err)
             ELSE LcsReconstruct(x.items, y.items, f.t, Len(x.items), Len(y.items), <<>>)

LongestCommonSubsequence ==
    /\ pc = "call" /\ call.fn = "longest_common_subsequence"
    /\ result' = LongestCommonSubsequenceOf(call.x, call.y)
    /\ pc' = "done"
    /\ UNCHANGED <<call, heap, stack, ret, kvals, subproblems>>

InitLcs ==
    /\ \E x \in Strings, y \in Strings :
          call = Call("longest_common_subsequence", None, None, None, 0, NoEps, x, y)
    /\ pc = "call"
    /\ heap = NoHeap
    /\ stack = <<>>
    /\ ret = 0
    /\ kvals = None
    /\ subproblems = NoTable
    /\ result = NoResult

NextLcs == LongestCommonSubsequence

SpecLcs == InitLcs /\ [][NextLcs]_vars

(***************************************************************************)
(* Reference notions the properties are stated with.                       *)
(***************************************************************************)
BruteForceInversions(s) ==
    Cardinality({ij \in (1..Len(s)) \X (1..Len(s)) : ij[1] < ij[2] /\ s[ij[1]] > s[ij[2]]})

\* total of seq over the items of S (items are numbered from 0)
TotalOf(S, seq) == SumSeq([i \in 1..Len(seq) |-> IF (i - 1) \in S THEN seq[i] ELSE 0])

Selections(n) == SUBSET (0..(n - 1))

Feasible(S, weights, cap) == TotalOf(S, weights) <= cap

OptimalValue(vals, weights, cap) ==
    MaxOf({TotalOf(S, vals) : S \in {R \in Selections(Len(vals)) : Feasible(R, weights, cap)}})

WellFormed(c) ==
    /\ ~c.vals.isNone /\ ~c.weights.isNone
    /\ Len(c.vals.items) >= 1
    /\ Len(c.vals.items) = Len(c.weights.items)
    /\ c.cap >= 0

InvalidArgs(c) ==
    \/ c.vals.isNone \/ c.weights.isNone
    \/ Len(c.vals.items) = 0 \/ Len(c.weights.items) = 0
    \/ Len(c.vals.items) # Len(c.weights.items)
    \/ c.cap < 0
    \/ (c.fn = "heuristic" /\ ~(0 < c.eps.p /\ c.eps.p < c.eps.q))

RECURSIVE IsSubsequence(_, _)
IsSubsequence(s, t) ==
    IF s = <<>> THEN TRUE
    ELSE IF t = <<>> THEN FALSE
    ELSE IF s[1] = t[1] THEN IsSubsequence(Tail(s), Tail(t))
    ELSE IsSubsequence(s, Tail(t))

RECURSIVE LcsLength(_, _)
LcsLength(x, y) ==
    IF x = <<>> \/ y = <<>> THEN 0
    ELSE IF x[Len(x)] = y[Len(y)]
    THEN LcsLength(SubSeq(x, 1, Len(x) - 1), SubSeq(y, 1, Len(y) - 1)) + 1
    ELSE Max(LcsLength(SubSeq(x, 1, Len(x) - 1), y), LcsLength(x, SubSeq(y, 1, Len(y) - 1)))

Returned(fn) == pc = "done" /\ call.fn = fn

(***************************************************************************)
(* Properties.                                                             *)
(***************************************************************************)

\* C1: count_inversions of a non-empty list returns the number of pairs
\* i < j with S[i] > S[j]; the list 2, 3, 8, 6, 1 is among the inputs (5 pairs).
InversionsEqualBruteForce ==
    (Returned("count_inversions") /\ ~call.nums.isNone /\ Len(call.nums.items) >= 1)
        => /\ result.status = "ok"
           /\ result.num = BruteForceInversions(call.nums.items)

\* C2: knapsack on a well-formed instance returns a set of items of total
\* weight <= cap whose total value no feasible selection exceeds; on the
\* example instance it returns {1, 2}.
ExactKnapsackOptimal ==
    (Returned("knapsack") /\ WellFormed(call))
        => /\ result.status = "ok"
           /\ result.set \subseteq 0..(Len(call.vals.items) - 1)
           /\ Feasible(result.set, call.weights.items, call.cap)
           /\ TotalOf(result.set, call.vals.items)
                = OptimalValue(call.vals.items, call.weights.items, call.cap)
           /\ Instance(call.vals, call.weights, call.cap) = ExampleInstance
                 => result.set = {1, 2}

\* C3: the heuristic on a well-formed instance with epsilon in (0, 1) returns
\* a set of total weight <= cap and total value >= (1 - epsilon) * optimum.
HeuristicWithinEpsilon ==
    (Returned("heuristic") /\ WellFormed(call) /\ EpsilonInRange(call.eps))
        => /\ result.status = "ok"
           /\ Feasible(result.set, call.weights.items, call.cap)
           /\ call.eps.q * TotalOf(result.set, call.vals.items)
                >= (call.eps.q - call.eps.p)
                     * OptimalValue(call.vals.items, call.weights.items, call.cap)

\* C4: a call of knapsack or of the heuristic with an absent, empty or
\* unequal list, a negative capacity or an epsilon outside (0, 1) ends in
\* IllegalArgumentError, with no table built.
InvalidArgsRaise ==
    (pc = "done" /\ call.fn \in {"knapsack", "heuristic"} /\ InvalidArgs(call))
        => /\ result.status = "IllegalArgumentError"
           /\ subproblems = NoTable

\* C5: knapsack with capacity 0 returns normally, and returns only items of
\* weight 0.
CapZeroOnlyWeightless ==
    (Returned("knapsack") /\ WellFormed(call) /\ call.cap = 0)
        => /\ result.status = "ok"
           /\ \A i \in result.set : PyGet(call.weights.items, i) = 0

\* C6: longest_common_subsequence of two non-empty strings returns a common
\* subsequence of maximum length; of an empty or absent string, the empty list.
LcsIsLongest ==
    Returned("longest_common_subsequence")
        => IF call.x.isNone \/ call.y.isNone \/ call.x.items = <<>> \/ call.y.items = <<>>
           THEN result = ReturnSeq(<<>>)
           ELSE /\ result.status = "ok"
                /\ IsSubsequence(result.seq, call.x.items)
                /\ IsSubsequence(result.seq, call.y.items)
                /\ Len(result.seq) = LcsLength(call.x.items, call.y.items)

\* C7: at every step of count_inversions the caller's list holds the elements
\* it held at the call, in the same order.
InputNeverMutated ==
    call.fn = "count_inversions" => heap.arg = call.nums.items

\* a call that has returned after sorting its private copy of an unsorted list
UnsortedInputSorted ==
    /\ Returned("count_inversions")
    /\ result.num > 0
    /\ heap.copy # heap.arg
    /\ \A i \in 1..(Len(heap.copy) - 1) : heap.copy[i] <= heap.copy[i + 1]

\* C8: in the value-indexed knapsack an entry T[i][x], x >= 1, is <= cap only
\* if items 0..i hold a selection of value >= x and weight <= cap; the target
\* of the scan is the optimum and the returned set attains it within cap.
SentinelNeverFeasible ==
    (Returned("val_knapsack") /\ WellFormed(call))
        => /\ \A i \in 1..Len(subproblems) : \A x \in 1..(Len(subproblems[i]) - 1) :
                 subproblems[i][x + 1] <= call.cap
                   => \E S \in Selections(i) :
                         /\ TotalOf(S, call.vals.items) >= x
                         /\ Feasible(S, call.weights.items, call.cap)
           /\ result.status = "ok"
           /\ ScanTarget(call.vals.items, call.cap, subproblems).max_total_val
                = OptimalValue(call.vals.items, call.weights.items, call.cap)
           /\ Feasible(result.set, call.weights.items, call.cap)
           /\ TotalOf(result.set, call.vals.items)
                = OptimalValue(call.vals.items, call.weights.items, call.cap)

MemoEqualsBottomUp ==
    Returned("knapsack_straightforward")
        => result = Knapsack(call.vals, call.weights, call.cap)

====
